---- MODULE Spec2Model ----
(***************************************************************************)
(* State-machine model of src/src/server.js (skintools): the account       *)
(* store kept in .refresh_token.json, the Steam / Game Coordinator session *)
(* driven by the auth routes and the connection's events, the trade-up     *)
(* craft coordinator (POST /api/tradeup/execute, craftingComplete), and    *)
(* the item catalog (loadItemSchema, lookupSchema) and the bulk storage     *)
(* unit routes (add-bulk, remove-bulk).                                    *)
(*                                                                         *)
(* Every HTTP handler runs to completion on the event loop, so a handler   *)
(* (or an event callback, or a timer callback together with the promise    *)
(* continuation it triggers) is one atomic action.                         *)
(***************************************************************************)
EXTENDS Integers, Sequences, FiniteSets, TLC

VARIABLES
    tokenFile,            \* contents of TOKEN_FILE (.refresh_token.json)
    client,               \* the SteamUser / GlobalOffensive pair (client, csgo)
    staleEvents,          \* events torn-down connections have still to deliver
    steamGuardResolver,   \* the stored Steam Guard callback
    connectionStatus,
    steamId64,
    currentLoginAccount,
    pendingCraftResolve,  \* the pending-craft slot: 0 (null) or a craft
    crafts,               \* per craft: its promise, its timer, its command
    schemaByType,         \* per catalog category: its index, once loaded
    itemSchema,           \* the skin entries of every load so far, merged
    schemaLoaded,
    loading,              \* loadItemSchema() calls waiting for their fetches
    bulk,                 \* per bulk request: the staggered commands still to send
    reply                 \* what the latest step answered, and to whom

vars == <<tokenFile, client, staleEvents, steamGuardResolver, connectionStatus,
          steamId64, currentLoginAccount, pendingCraftResolve, crafts,
          schemaByType, itemSchema, schemaLoaded, loading, bulk, reply>>

sessionVars == <<tokenFile, client, staleEvents, steamGuardResolver,
                 connectionStatus, steamId64, currentLoginAccount>>

craftVars == <<pendingCraftResolve, crafts>>

catalogVars == <<schemaByType, itemSchema, schemaLoaded, loading>>

(***************************************************************************)
(* Bounds and input sets                                                   *)
(***************************************************************************)
MaxCrafts == 2            \* craft records alive at once (promise, timer, command)

MaxBulk == 1              \* bulk requests with commands still to send

CraftIds == 1..MaxCrafts

Null == "null"

Names == {"alice", "bob"}

Tokens == {"T1", "T2"}

(***************************************************************************)
(* Account store: loadTokenFile, saveTokenFile, saveToken, loadToken,      *)
(* setActiveAccount, removeAccount, clearToken                             *)
(*                                                                         *)
(* The file is absent, holds the legacy shape {accountName, token}, or     *)
(* holds the map shape {active, accounts}.  accounts is the sequence of    *)
(* the object's entries in key (insertion) order, which Object.keys and    *)
(* JSON.stringify / JSON.parse keep.                                       *)
(***************************************************************************)
AbsentFile ==
    [kind |-> "absent", accountName |-> Null, token |-> Null,
     active |-> Null, accounts |-> <<>>]

LegacyFile(a, t) ==
    [kind |-> "legacy", accountName |-> a, token |-> t,
     active |-> Null, accounts |-> <<>>]

\* saveTokenFile(data): the file now holds data, in map shape
saveTokenFile(data) ==
    [kind |-> "map", accountName |-> Null, token |-> Null,
     active |-> data.active, accounts |-> data.accounts]

\* the value loadTokenFile() returns
loadTokenFile(f) ==
    IF f.kind = "absent" THEN [active |-> Null, accounts |-> <<>>]
    ELSE IF f.kind = "legacy"
         THEN [active |-> f.accountName,
               accounts |-> <<[name |-> f.accountName, token |-> f.token]>>]
         ELSE [active |-> f.active, accounts |-> f.accounts]

\* a load that returns the migrated value without writing it back
fileAfterLoadNoWrite(f) == f

\* the file loadTokenFile() leaves behind: a legacy file is written back migrated
fileAfterLoad(f) ==
    IF f.kind = "legacy" THEN saveTokenFile(loadTokenFile(f)) ELSE f

\* Object.keys(accounts)
Keys(accounts) == [i \in 1..Len(accounts) |-> accounts[i].name]

\* name in accounts
HasKey(accounts, name) == \E i \in 1..Len(accounts) : accounts[i].name = name

\* accounts[name]  (undefined and null are both Null here: both are falsy and
\* both are written back as null)
Get(accounts, name) ==
    IF HasKey(accounts, name)
    THEN (CHOOSE e \in {accounts[i] : i \in 1..Len(accounts)} : e.name = name).token
    ELSE Null

\* accounts[name] = token: an existing key keeps its place, a new one goes last
Put(accounts, name, token) ==
    IF HasKey(accounts, name)
    THEN [i \in 1..Len(accounts) |->
            IF accounts[i].name = name
            THEN [name |-> name, token |-> token] ELSE accounts[i]]
    ELSE Append(accounts, [name |-> name, token |-> token])

\* delete accounts[name]
Delete(accounts, name) == SelectSeq(accounts, LAMBDA e : e.name # name)

\* the file after saveToken(accountName, token)
saveToken(f, accountName, token) ==
    LET data == loadTokenFile(f) IN
    saveTokenFile([active |-> accountName,
                   accounts |-> Put(data.accounts, accountName, token)])

\* loadToken(): the active account with its token; null is the record with no
\* token, which is all the callers test (saved?.token)
loadToken(f) ==
    LET data == loadTokenFile(f) IN
    IF data.active = Null \/ Get(data.accounts, data.active) = Null
    THEN [accountName |-> Null, token |-> Null]
    ELSE [accountName |-> data.active, token |-> Get(data.accounts, data.active)]

\* what setActiveAccount(accountName) returns
setActiveAccountOk(f, accountName) ==
    HasKey(loadTokenFile(f).accounts, accountName)

\* setActiveAccount without the membership test: marks any name active
setActiveAccountUnchecked(f, accountName) ==
    saveTokenFile([loadTokenFile(f) EXCEPT !.active = accountName])

\* the file after setActiveAccount(accountName)
setActiveAccount(f, accountName) ==
    LET data == loadTokenFile(f) IN
    IF ~HasKey(data.accounts, accountName)
    THEN fileAfterLoad(f)
    ELSE saveTokenFile([data EXCEPT !.active = accountName])

\* a removal that leaves the active field alone
removeAccountKeepActive(f, accountName) ==
    LET data == loadTokenFile(f) IN
    [active |-> data.active, accounts |-> Delete(data.accounts, accountName)]

\* the data removeAccount(accountName) saves and returns
removeAccount(f, accountName) ==
    LET data == loadTokenFile(f)
        rest == Delete(data.accounts, accountName)
    IN  [active |-> IF data.active = accountName
                    THEN (IF Len(rest) > 0 THEN rest[1].name ELSE Null)
                    ELSE data.active,
         accounts |-> rest]

\* the file after clearToken(): unlinked
clearToken(f) == AbsentFile

(***************************************************************************)
(* The connection.  client and csgo are created together by createClients  *)
(* and are one record here: phase "null" is client = csgo = null.  The     *)
(* connection library is a black box; what it can emit in each phase:      *)
(*   logon  logOn issued:  steamGuard, refreshToken, loggedOn, error       *)
(*   guard  waiting for the code handed to the steamGuard callback         *)
(*   on     logged on to Steam, gamesPlayed sent: connectedToGC,           *)
(*          refreshToken, loggedOff, error                                 *)
(*   gc     in a GC session: disconnectedFromGC, craftingComplete,         *)
(*          refreshToken, loggedOff, error                                 *)
(*   off    logOff() was called on it;  dead: it failed or was logged off  *)
(* The handlers createClients registers stay attached to a connection that *)
(* was torn down; staleEvents holds what such connections may still emit.  *)
(***************************************************************************)
NoClient == [phase |-> "null", acct |-> Null]

LivePhases == {"logon", "guard", "on", "gc"}

Statuses == {"disconnected", "connecting", "steamguard", "connected", "error"}

\* csgo, the GlobalOffensive handle of line 212, as the craft route tests it
csgo == client

\* client.logOff() inside try/catch: the connection is torn down
logOff(c) == IF c.phase \in LivePhases THEN [c EXCEPT !.phase = "off"] ELSE c

\* an event of the connection that was logging account acct in (Null where
\* the handler does not depend on the account)
StaleEvent(event, acct) == [event |-> event, acct |-> acct]

\* the events a connection may still deliver after logOff() was called on it
\* (the handlers of lines 214-253 stay registered on the old client object):
\* the GC and session shutdown notices, and the credential of a login that
\* was waiting for its Steam Guard confirmation

trailingEvents(c) ==
    (IF c.phase = "gc" THEN {StaleEvent("disconnectedFromGC", Null)} ELSE {})
    \cup (IF c.phase \in {"on", "gc"} THEN {StaleEvent("loggedOff", Null)} ELSE {})
    \cup (IF c.phase = "guard" THEN {StaleEvent("refreshToken", c.acct)} ELSE {})

\* client.steamID of the current client, as the loggedOn handler reads it
steamID(c) == IF c.phase \in {"on", "gc"} THEN c.acct ELSE Null

\* the stored Steam Guard callback after createClients replaced the connection
resolverAfterCreate(r) == IF r = "current" THEN "stale" ELSE r

Reply(op, name, code) ==
    [op |-> op, name |-> name, n |-> 0, rarity |-> Null,
     code |-> code, craft |-> 0, cmd |-> 0]

\* createClients() followed by client.logOn(...) for account acct
createClients(acct) ==
    /\ client' = [phase |-> "logon", acct |-> acct]
    /\ staleEvents' = staleEvents \cup trailingEvents(client)
    /\ steamGuardResolver' = resolverAfterCreate(steamGuardResolver)

(***************************************************************************)
(* Auth routes                                                             *)
(***************************************************************************)
\* POST /api/auth/login
Login(username) ==
    /\ createClients(username)
    /\ connectionStatus' = "connecting"
    /\ currentLoginAccount' = username
    /\ LET data == loadTokenFile(tokenFile) IN
       tokenFile' = saveTokenFile(
           [active |-> username,
            accounts |-> Put(data.accounts, username, Get(data.accounts, username))])
    /\ reply' = Reply("login", username, "ok")
    /\ UNCHANGED <<steamId64, craftVars, catalogVars, bulk>>

\* POST /api/auth/token-login
TokenLogin ==
    LET saved == loadToken(tokenFile) IN
    /\ tokenFile' = fileAfterLoad(tokenFile)
    /\ IF saved.token = Null
       THEN /\ reply' = Reply("token-login", Null, "NoSavedToken")
            /\ UNCHANGED <<client, staleEvents, steamGuardResolver,
                           connectionStatus, currentLoginAccount>>
       ELSE /\ createClients(saved.accountName)
            /\ connectionStatus' = "connecting"
            /\ currentLoginAccount' = saved.accountName
            /\ reply' = Reply("token-login", saved.accountName, "ok")
    /\ UNCHANGED <<steamId64, craftVars, catalogVars, bulk>>

\* POST /api/auth/switch
Switch(accountName) ==
    IF ~setActiveAccountOk(tokenFile, accountName)
    THEN /\ tokenFile' = setActiveAccount(tokenFile, accountName)
         /\ reply' = Reply("switch", accountName, "UnknownAccount")
         /\ UNCHANGED <<client, staleEvents, steamGuardResolver, connectionStatus,
                        steamId64, currentLoginAccount, craftVars, catalogVars, bulk>>
    ELSE LET file  == setActiveAccount(tokenFile, accountName)
             saved == loadToken(file)
         IN  /\ tokenFile' = file
             /\ steamId64' = Null
             /\ IF saved.token = Null
                THEN /\ client' = logOff(client)
                     /\ staleEvents' = staleEvents \cup trailingEvents(client)
                     /\ connectionStatus' = "disconnected"
                     /\ reply' = Reply("switch", accountName, "NoCredentialForAccount")
                     /\ UNCHANGED <<steamGuardResolver, currentLoginAccount>>
                ELSE /\ createClients(accountName)
                     /\ connectionStatus' = "connecting"
                     /\ currentLoginAccount' = accountName
                     /\ reply' = Reply("switch", accountName, "ok")
             /\ UNCHANGED <<craftVars, catalogVars, bulk>>

\* the test of line 330 that decides whether remove-account disconnects
removeDisconnects(data, accountName) ==
    connectionStatus = "connected" /\ data.active # accountName

\* POST /api/auth/remove-account
RemoveAccount(accountName) ==
    LET data == removeAccount(tokenFile, accountName) IN
    /\ tokenFile' = saveTokenFile(data)
    /\ IF removeDisconnects(data, accountName)
       THEN /\ client' = logOff(client)
            /\ staleEvents' = staleEvents \cup trailingEvents(client)
            /\ connectionStatus' = "disconnected"
            /\ steamId64' = Null
       ELSE UNCHANGED <<client, staleEvents, connectionStatus, steamId64>>
    /\ reply' = Reply("remove-account", accountName, "ok")
    /\ UNCHANGED <<steamGuardResolver, currentLoginAccount, craftVars, catalogVars, bulk>>

\* the test of line 340: is there a stored callback to hand the code to
guardAccepts == steamGuardResolver # Null

\* POST /api/auth/guard
Guard ==
    IF ~guardAccepts
    THEN /\ reply' = Reply("guard", Null, "NoChallengePending")
         /\ UNCHANGED <<sessionVars, craftVars, catalogVars, bulk>>
    ELSE \* the callback hands the code to the connection that asked for it
         /\ client' = IF steamGuardResolver = "current" /\ client.phase = "guard"
                      THEN [client EXCEPT !.phase = "logon"] ELSE client
         /\ steamGuardResolver' = Null
         /\ connectionStatus' = "connecting"
         /\ reply' = Reply("guard", Null, "ok")
         /\ UNCHANGED <<tokenFile, staleEvents, steamId64, currentLoginAccount,
                        craftVars, catalogVars, bulk>>

\* POST /api/auth/logout
Logout ==
    /\ tokenFile' = clearToken(tokenFile)
    /\ client' = logOff(client)
    /\ staleEvents' = staleEvents \cup trailingEvents(client)
    /\ connectionStatus' = "disconnected"
    /\ steamId64' = Null
    /\ reply' = Reply("logout", Null, "ok")
    /\ UNCHANGED <<steamGuardResolver, currentLoginAccount, craftVars, catalogVars, bulk>>

\* a request whose body lacks the required field: answered 400 at once
BadRequest(op) ==
    /\ reply' = Reply(op, Null, "BadRequest")
    /\ UNCHANGED <<sessionVars, craftVars, catalogVars, bulk>>

(***************************************************************************)
(* Connection events: the handlers registered in createClients             *)
(***************************************************************************)
\* client.on('loggedOn')
OnLoggedOn ==
    /\ client.phase = "logon"
    /\ client' = [client EXCEPT !.phase = "on"]
    /\ steamId64' = steamID(client')
    /\ connectionStatus' = "connecting"
    /\ reply' = Reply("loggedOn", Null, "-")
    /\ UNCHANGED <<tokenFile, staleEvents, steamGuardResolver, currentLoginAccount,
                   craftVars, catalogVars, bulk>>

\* client.on('refreshToken')
OnRefreshToken(token) ==
    /\ client.phase \in {"logon", "on", "gc"}
    /\ tokenFile' = IF currentLoginAccount # Null
                    THEN saveToken(tokenFile, currentLoginAccount, token)
                    ELSE tokenFile
    /\ reply' = Reply("refreshToken", client.acct, "-")
    /\ UNCHANGED <<client, staleEvents, steamGuardResolver, connectionStatus,
                   steamId64, currentLoginAccount, craftVars, catalogVars, bulk>>

\* client.on('steamGuard')
OnSteamGuard ==
    /\ client.phase = "logon"
    /\ client' = [client EXCEPT !.phase = "guard"]
    /\ connectionStatus' = "steamguard"
    /\ steamGuardResolver' = "current"
    /\ reply' = Reply("steamGuard", Null, "-")
    /\ UNCHANGED <<tokenFile, staleEvents, steamId64, currentLoginAccount, craftVars, catalogVars, bulk>>

\* client.on('error'): a fatal error, the connection is gone
OnError ==
    /\ client.phase \in LivePhases
    /\ client' = [client EXCEPT !.phase = "dead"]
    /\ connectionStatus' = "error"
    /\ reply' = Reply("error", Null, "-")
    /\ UNCHANGED <<tokenFile, staleEvents, steamGuardResolver, steamId64,
                   currentLoginAccount, craftVars, catalogVars, bulk>>

\* client.on('loggedOff'), the service logging the session off
OnLoggedOff ==
    /\ client.phase \in {"on", "gc"}
    /\ client' = [client EXCEPT !.phase = "dead"]
    /\ connectionStatus' = "disconnected"
    /\ reply' = Reply("loggedOff", Null, "-")
    /\ UNCHANGED <<tokenFile, staleEvents, steamGuardResolver, steamId64,
                   currentLoginAccount, craftVars, catalogVars, bulk>>

\* csgo.on('connectedToGC')
OnConnectedToGC ==
    /\ client.phase = "on"
    /\ client' = [client EXCEPT !.phase = "gc"]
    /\ connectionStatus' = "connected"
    /\ reply' = Reply("connectedToGC", Null, "-")
    /\ UNCHANGED <<tokenFile, staleEvents, steamGuardResolver, steamId64,
                   currentLoginAccount, craftVars, catalogVars, bulk>>

\* csgo.on('disconnectedFromGC')
OnDisconnectedFromGC ==
    /\ client.phase = "gc"
    /\ client' = [client EXCEPT !.phase = "on"]
    /\ connectionStatus' = "connecting"
    /\ reply' = Reply("disconnectedFromGC", Null, "-")
    /\ UNCHANGED <<tokenFile, staleEvents, steamGuardResolver, steamId64,
                   currentLoginAccount, craftVars, catalogVars, bulk>>

\* the same handlers, run by an event of a connection that was torn down
OnStaleEvent(e) ==
    /\ e \in staleEvents
    /\ e.event # "refreshToken"
    /\ staleEvents' = staleEvents \ {e}
    /\ connectionStatus' = IF e.event = "loggedOff" THEN "disconnected" ELSE "connecting"
    /\ reply' = Reply(e.event, Null, "stale")
    /\ UNCHANGED <<tokenFile, client, steamGuardResolver, steamId64,
                   currentLoginAccount, craftVars, catalogVars, bulk>>

\* the refreshToken handler (lines 221-223) run by the torn-down connection
\* of account acct: it reads the global currentLoginAccount
OnStaleRefreshToken(acct, token) ==
    /\ StaleEvent("refreshToken", acct) \in staleEvents
    /\ staleEvents' = staleEvents \ {StaleEvent("refreshToken", acct)}
    /\ tokenFile' = IF currentLoginAccount # Null
                    THEN saveToken(tokenFile, currentLoginAccount, token)
                    ELSE tokenFile
    /\ reply' = Reply("refreshToken", acct, "stale")
    /\ UNCHANGED <<client, steamGuardResolver, connectionStatus, steamId64,
                   currentLoginAccount, craftVars, catalogVars, bulk>>

(***************************************************************************)
(* Craft coordinator: POST /api/tradeup/execute and craftingComplete       *)
(*                                                                         *)
(* A craft record is what one accepted request leaves on the heap: its     *)
(* promise, its 15 s timer and the craft command it sent.  The slot        *)
(* pendingCraftResolve holds the craft whose resolver is stored, 0 for     *)
(* null.  A record nothing can act on any more (promise settled, timer     *)
(* gone, command answered) is reclaimed, so MaxCrafts bounds the records   *)
(* alive at once, not the crafts of a run.                                 *)
(***************************************************************************)
CraftSize == 10

\* recipeMap of lines 548-554
recipeMap ==
    [r \in {"rarity_common_weapon", "rarity_uncommon_weapon", "rarity_rare_weapon",
            "rarity_mythical_weapon", "rarity_legendary_weapon"} |->
        CASE r = "rarity_common_weapon"    -> 0
          [] r = "rarity_uncommon_weapon"  -> 1
          [] r = "rarity_rare_weapon"      -> 2
          [] r = "rarity_mythical_weapon"  -> 3
          [] r = "rarity_legendary_weapon" -> 4]

\* request bodies tried: n = itemIds.length, rarity, and bad: whether the
\* promise executor throws on it (an id csgo.craft cannot encode, or
\* csgo.inventory undefined at line 573)
Requests ==
    {[n |-> 10, rarity |-> "rarity_rare_weapon",     bad |-> FALSE],
     [n |-> 10, rarity |-> "rarity_mythical_weapon", bad |-> FALSE],
     [n |-> 10, rarity |-> "rarity_rare_weapon",     bad |-> TRUE],
     [n |-> 9,  rarity |-> "rarity_rare_weapon",     bad |-> FALSE],
     [n |-> 11, rarity |-> "rarity_mythical_weapon", bad |-> FALSE],
     [n |-> 10, rarity |-> "rarity_ancient_weapon",  bad |-> FALSE]}

FreeCraft == [promise |-> "none", timer |-> FALSE, cmd |-> "none", recipe |-> 0]

CraftReply(req, code, c, k) ==
    [op |-> "executeCraft", name |-> Null, n |-> req.n, rarity |-> req.rarity,
     code |-> code, craft |-> c, cmd |-> k]

OutcomeReply(code, c, k) ==
    [op |-> "craftOutcome", name |-> Null, n |-> 0, rarity |-> Null,
     code |-> code, craft |-> c, cmd |-> k]

\* resolve(result) on a promise: settles it only if it is still pending
resolve(p) == IF p = "pending" THEN "fulfilled" ELSE p

\* reject(err) on a promise: settles it only if it is still pending
reject(p) == IF p = "pending" THEN "rejected" ELSE p

\* records nothing refers to any more are garbage
Reclaim(cr, slot) ==
    [c \in CraftIds |->
        IF /\ cr[c].promise # "pending"
           /\ ~cr[c].timer
           /\ cr[c].cmd # "inflight"
           /\ slot # c
        THEN FreeCraft ELSE cr[c]]

\* the route's guards without the single-flight test of line 541
executeCraftCheckNoSingleFlight(req) ==
    IF csgo.phase = "null" \/ connectionStatus # "connected" THEN "NotConnected"
    ELSE IF req.n # CraftSize THEN "BadItemCount"
    ELSE IF req.rarity \notin DOMAIN recipeMap THEN "UnknownRarity"
    ELSE "accept"

\* the route's guards without the length test of line 544
executeCraftCheckAnyCount(req) ==
    IF csgo.phase = "null" \/ connectionStatus # "connected" THEN "NotConnected"
    ELSE IF pendingCraftResolve # 0 THEN "CraftInProgress"
    ELSE IF req.rarity \notin DOMAIN recipeMap THEN "UnknownRarity"
    ELSE "accept"

\* the guards of lines 540-556, in the order the route applies them
executeCraftCheck(req) ==
    IF csgo.phase = "null" \/ connectionStatus # "connected" THEN "NotConnected"
    ELSE IF pendingCraftResolve # 0 THEN "CraftInProgress"
    ELSE IF req.n # CraftSize THEN "BadItemCount"
    ELSE IF req.rarity \notin DOMAIN recipeMap THEN "UnknownRarity"
    ELSE "accept"

\* the record of a craft the promise executor of lines 559-580 has set up:
\* resolver stored, timer armed, and the command sent unless csgo.craft threw
acceptedCraft(req) ==
    [promise |-> IF req.bad THEN "rejected" ELSE "pending",
     timer   |-> TRUE,
     cmd     |-> IF req.bad THEN "none" ELSE "inflight",
     recipe  |-> recipeMap[req.rarity]]

\* POST /api/tradeup/execute
ExecuteCraft(req) ==
    LET check == executeCraftCheck(req) IN
    IF check # "accept"
    THEN /\ reply' = CraftReply(req, check, 0, 0)
         /\ UNCHANGED <<sessionVars, craftVars, catalogVars, bulk>>
    ELSE /\ \E c \in CraftIds : crafts[c] = FreeCraft
         /\ LET c == CHOOSE x \in CraftIds :
                        /\ crafts[x] = FreeCraft
                        /\ \A y \in CraftIds : crafts[y] = FreeCraft => x <= y
            IN  \* a throw inside the executor rejects the promise; the catch of
                \* lines 583-586 then empties the slot and answers 500
                /\ pendingCraftResolve' = IF req.bad THEN 0 ELSE c
                /\ crafts' = [crafts EXCEPT ![c] = acceptedCraft(req)]
                /\ reply' = CraftReply(req, IF req.bad THEN "CraftError" ELSE "suspended",
                                       c, 0)
         /\ UNCHANGED <<sessionVars, catalogVars, bulk>>

\* a timeout that forgets to release the slot
slotKeptAfterTimeout(c) == pendingCraftResolve

\* the slot after the timer callback of lines 561-564 ran for craft c
slotAfterTimeout(c) == 0

\* the timer of craft c fires: lines 561-564, then the catch of lines 583-586
\* when the rejection is what settles the promise
CraftTimeout(c) ==
    /\ crafts[c].timer
    /\ pendingCraftResolve' = slotAfterTimeout(c)
    /\ crafts' = Reclaim([crafts EXCEPT ![c].timer = FALSE,
                                        ![c].promise = reject(@)],
                         pendingCraftResolve')
    /\ reply' = IF crafts[c].promise = "pending"
                THEN OutcomeReply("CraftTimeout", c, 0)
                ELSE OutcomeReply("none", 0, 0)
    /\ UNCHANGED <<sessionVars, catalogVars, bulk>>

\* a resolver that forgets clearTimeout
callResolverNoClear(cr, s) == [cr EXCEPT ![s].promise = resolve(@)]

\* the stored resolver of lines 566-569, called for the craft s in the slot:
\* clearTimeout(timeout); resolve(result)
callResolver(cr, s) ==
    [cr EXCEPT ![s].timer = FALSE, ![s].promise = resolve(@)]

\* does the craftingComplete handler find a resolver to call (line 248)
completionDelivers == pendingCraftResolve # 0

\* csgo.on('craftingComplete'): the GC answers craft command k
CraftingComplete(k) ==
    /\ crafts[k].cmd = "inflight"
    /\ client.phase = "gc"
    /\ LET s    == pendingCraftResolve
           done == [crafts EXCEPT ![k].cmd = "done"]
       IN  IF completionDelivers
           THEN /\ pendingCraftResolve' = 0
                /\ crafts' = Reclaim(callResolver(done, s), 0)
                /\ reply' = IF crafts[s].promise = "pending"
                            THEN OutcomeReply("Success", s, k)
                            ELSE OutcomeReply("none", 0, k)
           ELSE /\ pendingCraftResolve' = pendingCraftResolve
                /\ crafts' = Reclaim(done, pendingCraftResolve)
                /\ reply' = OutcomeReply("none", 0, k)
    /\ UNCHANGED <<sessionVars, catalogVars, bulk>>

\* the GC never answers craft command k (csgo.craft is fire-and-forget)
CraftUnanswered(k) ==
    /\ crafts[k].cmd = "inflight"
    /\ crafts' = Reclaim([crafts EXCEPT ![k].cmd = "done"], pendingCraftResolve)
    /\ reply' = Reply("craftUnanswered", Null, "-")
    /\ UNCHANGED <<sessionVars, catalogVars, bulk, pendingCraftResolve>>

(***************************************************************************)
(* Item catalog: loadItemSchema (lines 90-154) and lookupSchema (160-206)  *)
(*                                                                         *)
(* A catalog document is what one source URL answered: its JSON shape and  *)
(* its items in document order.  An index maps a key to an entry; the key  *)
(* `${weapon_id}_${paint_index}` of a skin is the pair of the two numbers, *)
(* the key String(def_index) of the other categories is the number.  Names *)
(* are sequences of the parts that ' | ' separates.  Float bounds are in   *)
(* hundredths.  Every item of a document is an object.                     *)
(***************************************************************************)
\* the twelve sources of loadItemSchema, in their order
Types ==
    <<"skin", "crate", "sticker", "sticker_slab", "graffiti", "agent", "patch",
      "musickit", "tool", "keychain", "key", "collectible">>

TypeSet == {Types[i] : i \in 1..Len(Types)}

\* a numeric field that is set, and one that is null or missing
Some(n) == [has |-> TRUE, val |-> n]

None == [has |-> FALSE, val |-> 0]

\* the type ids and the attribute id the overrides of lookupSchema test
CoinDefIndex == 4950

BadgeDefIndex == 1348

VeteranAttribute == 277

\* an item of a skins document / of any other document
SkinItem(wid, pi, mhn, name, min) ==
    [weapon_id |-> wid, paint_index |-> pi, def_index |-> None,
     market_hash_name |-> mhn, name |-> name, image |-> Null,
     rarity |-> "rarity_rare_weapon", min_float |-> min, max_float |-> None,
     collections |-> <<[id |-> "collection-set-community-1"]>>]

DefItem(def, mhn, name, image) ==
    [weapon_id |-> None, paint_index |-> None, def_index |-> def,
     market_hash_name |-> mhn, name |-> name, image |-> image,
     rarity |-> Null, min_float |-> None, max_float |-> None,
     collections |-> <<>>]

\* item.market_hash_name || item.name
entryName(item) ==
    IF item.market_hash_name # <<>> THEN item.market_hash_name ELSE item.name

\* the entry a skin item is stored as (lines 129-138)
skinEntry(item) ==
    [name        |-> entryName(item),
     iconUrl     |-> item.image,
     rarity      |-> item.rarity,
     minFloat    |-> IF item.min_float.has THEN item.min_float.val ELSE 0,
     maxFloat    |-> IF item.max_float.has THEN item.max_float.val ELSE 100,
     collections |-> [i \in 1..Len(item.collections) |-> item.collections[i].id],
     defIndex    |-> item.weapon_id.val,
     paintIndex  |-> item.paint_index.val]

\* the entry an item of another category is stored as (line 141)
defEntry(item) == [name |-> entryName(item), iconUrl |-> item.image]

\* whether the item gets a key at all, and its key
keyed(type, item) ==
    IF type = "skin" THEN item.weapon_id.has /\ item.paint_index.has
    ELSE item.def_index.has

keyOf(type, item) ==
    IF type = "skin" THEN <<item.weapon_id.val, item.paint_index.val>>
    ELSE item.def_index.val

\* the items of a document: a plain array, the array under "value", the
\* values of an object, and nothing for anything else (lines 118-122)
itemsOf(data) ==
    IF data.shape \in {"array", "value", "object"} THEN data.items ELSE <<>>

\* the map built from the items (lines 123-143): a later item replaces an
\* earlier one with the same key
buildIndex(type, items) ==
    LET idx     == {i \in 1..Len(items) : keyed(type, items[i])}
        keys    == {keyOf(type, items[i]) : i \in idx}
        last(k) == CHOOSE i \in idx :
                     /\ keyOf(type, items[i]) = k
                     /\ \A j \in idx : keyOf(type, items[j]) = k => j <= i
    IN  [k \in keys |-> IF type = "skin" THEN skinEntry(items[last(k)])
                        ELSE defEntry(items[last(k)])]

\* schemaByType[type]: undefined until a load stores a map
NoIndex == [defined |-> FALSE, map |-> <<>>]

Index(map) == [defined |-> TRUE, map |-> map]

\* const schemaByType = {}
EmptySchema == [t \in TypeSet |-> NoIndex]

\* { ...a, ...b }
Merge(a, b) ==
    [k \in DOMAIN a \cup DOMAIN b |-> IF k \in DOMAIN b THEN b[k] ELSE a[k]]

\* a store that spreads the new map over the old index instead of replacing it
mergeIndex(old, map) == Index(Merge(old.map, map))

\* schemaByType[type] = map, for a source that was fetched
replaceIndex(old, map) == Index(map)

\* a failure that empties the category's index
dropIndex(old) == Index(<<>>)

\* `continue` for a source that failed: the index stays
keepIndex(old) == old

\* the loop over the settled fetches (lines 114-146)
storeResults(schema, results) ==
    [t \in TypeSet |->
        IF results[t].fulfilled
        THEN replaceIndex(schema[t], buildIndex(t, itemsOf(results[t].data)))
        ELSE keepIndex(schema[t])]

\* itemSchema = { ...itemSchema, ...(type === 'skin' ? map : {}) }
mergeItemSchema(old, results) ==
    IF results["skin"].fulfilled
    THEN Merge(old, buildIndex("skin", itemsOf(results["skin"].data)))
    ELSE old

(***************************************************************************)
(* lookupSchema(item)                                                      *)
(*                                                                         *)
(* An inventory item carries def_index, rarity, an optional paint_index,   *)
(* an optional attribute list and an optional stickers list.               *)
(***************************************************************************)
\* schemaByType[type]?.[key] is truthy (every entry is an object)
Has(schema, type, key) ==
    schema[type].defined /\ key \in DOMAIN schema[type].map

\* item.attribute?.some(a => a.def_index === id)
hasAttribute(item, id) ==
    /\ item.attribute.present
    /\ \E i \in 1..Len(item.attribute.list) : item.attribute.list[i].def_index = id

\* what lookupSchema answers for an item it cannot resolve
NullSchema == [null |-> TRUE]

\* an answer for unresolved items that is an entry
placeholderSchema == [name |-> <<"Unknown">>, iconUrl |-> Null]

\* return null (line 205)
unresolved == NullSchema

\* the entries of the hardcoded overrides (lines 175-176, 180)
Coin10 == [name |-> <<"10 Year Veteran Coin">>, iconUrl |-> Null]

Coin5 == [name |-> <<"5 Year Veteran Coin">>, iconUrl |-> Null]

LoyaltyBadge == [name |-> <<"Loyalty Badge">>, iconUrl |-> Null]

\* rule 1 (lines 165-168): a painted item whose key the skin index holds
skinKey(item) == <<item.def_index, item.paint_index.val>>

isSkin(schema, item) ==
    /\ item.paint_index.has
    /\ item.paint_index.val # 0
    /\ Has(schema, "skin", skinKey(item))

\* a coin test that also asks for the attribute
coinOverrideWithAttribute(item) ==
    /\ item.def_index = CoinDefIndex
    /\ item.rarity = 1
    /\ hasAttribute(item, VeteranAttribute)

\* rule 2, coin (line 173)
coinOverride(item) == item.def_index = CoinDefIndex /\ item.rarity = 1

\* a badge test that does not ask for the attribute
badgeOverrideAnyAttribute(item) ==
    item.def_index = BadgeDefIndex /\ item.rarity = 1

\* rule 2, badge (line 179)
badgeOverride(item) ==
    /\ item.def_index = BadgeDefIndex
    /\ item.rarity = 1
    /\ hasAttribute(item, VeteranAttribute)

\* s.name.replace(/^Sticker \| /, 'Graffiti | ')
graffitiName(name) ==
    IF Len(name) > 1 /\ Head(name) = "Sticker"
    THEN <<"Graffiti">> \o Tail(name) ELSE name

\* the categories probed in order by rule 4 (lines 200-203)
typeOrder ==
    <<"crate", "key", "agent", "collectible", "musickit", "patch", "tool",
      "keychain", "sticker_slab", "sticker">>

lookupTypeOrder(schema, def) ==
    LET hits == {i \in 1..Len(typeOrder) : Has(schema, typeOrder[i], def)} IN
    IF hits = {} THEN unresolved
    ELSE schema[typeOrder[CHOOSE i \in hits : \A j \in hits : i <= j]].map[def]

\* rules 3 to 5 (lines 183-205): sealed graffiti by its pattern id, then the
\* categories in typeOrder, then null
lookupGeneric(schema, item) ==
    LET def == item.def_index
        alreadyKnown ==
            \E t \in {"crate", "key", "agent", "collectible", "musickit", "patch",
                      "tool", "keychain"} : Has(schema, t, def)
        byPattern ==
            /\ ~alreadyKnown
            /\ item.stickers.present
            /\ Len(item.stickers.list) > 0
            /\ item.stickers.list[1].sticker_id.has
        patternId == item.stickers.list[1].sticker_id.val
    IN  IF byPattern /\ Has(schema, "graffiti", patternId)
        THEN schema["graffiti"].map[patternId]
        ELSE IF byPattern /\ Has(schema, "sticker", patternId)
        THEN [schema["sticker"].map[patternId] EXCEPT !.name = graffitiName(@)]
        ELSE lookupTypeOrder(schema, def)

\* a lookup that tries the overrides before the skin index
lookupSchemaOverrideFirst(schema, item) ==
    IF coinOverride(item)
    THEN (IF hasAttribute(item, VeteranAttribute) THEN Coin10 ELSE Coin5)
    ELSE IF badgeOverride(item) THEN LoyaltyBadge
    ELSE IF isSkin(schema, item) THEN schema["skin"].map[skinKey(item)]
    ELSE lookupGeneric(schema, item)

lookupSchema(schema, item) ==
    IF isSkin(schema, item) THEN schema["skin"].map[skinKey(item)]
    ELSE IF coinOverride(item)
    THEN (IF hasAttribute(item, VeteranAttribute) THEN Coin10 ELSE Coin5)
    ELSE IF badgeOverride(item) THEN LoyaltyBadge
    ELSE lookupGeneric(schema, item)

(***************************************************************************)
(* Catalog inputs: the documents the provider serves, in two editions, and *)
(* the inventory items looked up                                           *)
(***************************************************************************)
Document(shape, items) == [shape |-> shape, items |-> items]

Editions == {"A", "B"}

Published(type, ed) ==
    IF ed = "A" THEN
      CASE type = "skin" ->
             Document("array",
               <<SkinItem(Some(7), Some(44), <<"AK-47", "Redline">>, <<"Redline">>, Some(10)),
                 SkinItem(Some(CoinDefIndex), Some(44), <<>>, <<"Coin", "Painted">>, None),
                 SkinItem(Some(7), None, <<>>, <<"AK-47">>, None)>>)
        [] type = "crate" ->
             Document("value", <<DefItem(Some(7), <<>>, <<"Case">>, "case.png")>>)
        [] type = "sticker" ->
             Document("array",
               <<DefItem(Some(7), <<>>, <<"Sticker", "Crown">>, Null),
                 DefItem(Some(BadgeDefIndex), <<>>, <<"Sticker", "Howl">>, Null)>>)
        [] type = "sticker_slab" ->
             Document("object", <<DefItem(Some(BadgeDefIndex), <<>>, <<"Slab">>, Null)>>)
        [] type = "tool" ->
             Document("array", <<DefItem(None, <<>>, <<"Tool">>, Null)>>)
        [] type = "key" -> Document("text", <<>>)
        [] type = "collectible" ->
             Document("array",
               <<DefItem(Some(CoinDefIndex), <<"Service Medal">>, <<"Medal">>, Null)>>)
        [] OTHER -> Document("array", <<>>)
    ELSE
      CASE type = "skin" ->
             Document("value",
               <<SkinItem(Some(7), Some(44), <<>>, <<"AK-47", "Redline">>, None),
                 SkinItem(Some(BadgeDefIndex), Some(44), <<>>, <<"Badge", "Painted">>, None),
                 SkinItem(Some(7), Some(44), <<>>, <<"AK-47", "Redline", "v2">>, None)>>)
        [] type = "sticker" ->
             Document("array",
               <<DefItem(Some(7), <<>>, <<"Sticker", "Crown", "Foil">>, Null),
                 DefItem(Some(CoinDefIndex), <<>>, <<"Sticker", "Coin">>, Null)>>)
        [] type = "sticker_slab" ->
             Document("array", <<DefItem(Some(CoinDefIndex), <<>>, <<"Slab">>, Null)>>)
        [] type = "graffiti" ->
             Document("array", <<DefItem(Some(7), <<>>, <<"Graffiti", "Crown">>, Null)>>)
        [] type = "key" ->
             Document("array", <<DefItem(Some(BadgeDefIndex), <<>>, <<"Key">>, Null)>>)
        [] type = "collectible" ->
             Document("object",
               <<DefItem(Some(BadgeDefIndex), <<>>, <<"Pin">>, Null)>>)
        [] OTHER -> Document("array", <<>>)

\* the categories whose fetch fails in one load: none, any one, or two
FailedSets == {{}} \cup {{t} : t \in TypeSet} \cup {{"skin", "collectible"}}

\* the settled fetches of one load (Promise.allSettled, lines 110-112)
Settled(ed, failed) ==
    [t \in TypeSet |->
        [fulfilled |-> t \notin failed,
         data |-> IF t \in failed THEN Document("text", <<>>) ELSE Published(t, ed)]]

FetchResults == {Settled(ed, failed) : ed \in Editions, failed \in FailedSets}

Attributes ==
    {[present |-> FALSE, list |-> <<>>],
     [present |-> TRUE, list |-> <<[def_index |-> 6]>>],
     [present |-> TRUE, list |-> <<[def_index |-> 6], [def_index |-> VeteranAttribute]>>]}

StickerLists ==
    {[present |-> FALSE, list |-> <<>>],
     [present |-> TRUE, list |-> <<>>],
     [present |-> TRUE, list |-> <<[sticker_id |-> None]>>],
     [present |-> TRUE, list |-> <<[sticker_id |-> Some(7)]>>]}

Items ==
    [def_index : {7, BadgeDefIndex, CoinDefIndex},
     paint_index : {None, Some(0), Some(44)},
     rarity : {1, 5},
     attribute : Attributes,
     stickers : StickerLists]

(***************************************************************************)
(* Catalog steps                                                           *)
(***************************************************************************)
MaxLoading == 2           \* loadItemSchema() calls in flight at once

\* POST /api/refresh-web-inventory up to its await (lines 439-441): the flag
\* is cleared and a load starts, whether or not another load is in flight
RefreshWebInventory ==
    /\ loading < MaxLoading
    /\ schemaLoaded' = FALSE
    /\ loading' = loading + 1
    /\ reply' = [op |-> "refresh"]
    /\ UNCHANGED <<schemaByType, itemSchema, sessionVars, craftVars, bulk>>

\* loadItemSchema() once its fetches have settled (lines 114-149), and the
\* answer of the refresh route (line 442)
LoadItemSchemaDone(results) ==
    /\ loading > 0
    /\ schemaByType' = storeResults(schemaByType, results)
    /\ itemSchema' = mergeItemSchema(itemSchema, results)
    /\ schemaLoaded' = TRUE
    /\ loading' = loading - 1
    /\ reply' = [op |-> "schemaLoaded", results |-> results,
                 count |-> Cardinality(DOMAIN itemSchema')]
    /\ UNCHANGED <<sessionVars, craftVars, bulk>>

\* lookupSchema(item), as formatItem and the debug routes call it
Lookup(item) ==
    /\ reply' = [op |-> "lookup", item |-> item,
                 result |-> lookupSchema(schemaByType, item)]
    /\ UNCHANGED <<catalogVars, sessionVars, craftVars, bulk>>

(***************************************************************************)
(* Bulk storage unit routes: POST /api/storage/:casketId/add-bulk and      *)
(* remove-bulk (lines 381-395)                                             *)
(*                                                                         *)
(* An accepted request arms one timer per item, at 0, 300, 600, ... ms;    *)
(* the timers of one request fire in that order, each in a step of its     *)
(* own after the route has answered.  A bulk record holds the item list,   *)
(* the index of the next timer to fire (0 when none is left) and, for the  *)
(* properties, the account of the connection that passed requireGC.        *)
(***************************************************************************)
BulkIds == 1..MaxBulk

FreeBulk == [op |-> "none", itemIds |-> <<>>, next |-> 0, acct |-> Null]

\* request bodies: itemIds missing or not an array, an empty array, lists
BulkBodies ==
    {[isArray |-> FALSE, itemIds |-> <<>>],
     [isArray |-> TRUE, itemIds |-> <<>>],
     [isArray |-> TRUE, itemIds |-> <<"i1">>],
     [isArray |-> TRUE, itemIds |-> <<"i1", "i2">>],
     [isArray |-> TRUE, itemIds |-> <<"i2", "i1">>]}

BulkReply(op, code, queued) == [op |-> op, code |-> code, queued |-> queued]

\* requireGC (lines 356-362)
requireGC == connectionStatus = "connected"

\* itemIds.forEach((id, i) => setTimeout(..., i * 300)): the k-th timer to
\* fire carries the k-th item
itemOfTimer(itemIds, k) == itemIds[k]

\* the route, op being "add" or "remove"
BulkRequest(op, body) ==
    IF ~requireGC
    THEN /\ reply' = BulkReply(op, "NotConnected", 0)
         /\ UNCHANGED <<sessionVars, craftVars, catalogVars, bulk>>
    ELSE IF ~body.isArray \/ Len(body.itemIds) = 0
    THEN /\ reply' = BulkReply(op, "BadRequest", 0)
         /\ UNCHANGED <<sessionVars, craftVars, catalogVars, bulk>>
    ELSE /\ \E b \in BulkIds : bulk[b].next = 0
         /\ LET b == CHOOSE x \in BulkIds : bulk[x].next = 0 IN
            bulk' = [bulk EXCEPT ![b] = [op |-> op, itemIds |-> body.itemIds,
                                         next |-> 1, acct |-> csgo.acct]]
         /\ reply' = BulkReply(op, "ok", Len(body.itemIds))
         /\ UNCHANGED <<sessionVars, craftVars, catalogVars>>

\* a timer of request b fires: csgo.addToCasket / csgo.removeFromCasket on
\* whatever the global csgo is by now (lines 385, 393)
BulkTimer(b) ==
    /\ bulk[b].next > 0
    /\ reply' = [op |-> "casketCommand", cmd |-> bulk[b].op, job |-> b,
                 item |-> itemOfTimer(bulk[b].itemIds, bulk[b].next),
                 target |-> csgo]
    /\ bulk' = [bulk EXCEPT ![b] =
                   IF bulk[b].next < Len(bulk[b].itemIds)
                   THEN [bulk[b] EXCEPT !.next = @ + 1] ELSE FreeBulk]
    /\ UNCHANGED <<sessionVars, craftVars, catalogVars>>

(***************************************************************************)
(* Specifications                                                          *)
(***************************************************************************)
\* app.listen callback (lines 611-625): auto-login when a token is saved
SessionStart(f) ==
    LET saved == loadToken(f) IN
    /\ tokenFile = fileAfterLoad(f)
    /\ client = IF saved.token = Null THEN NoClient
                ELSE [phase |-> "logon", acct |-> saved.accountName]
    /\ currentLoginAccount = IF saved.token = Null THEN Null ELSE saved.accountName
    /\ staleEvents = {}
    /\ steamGuardResolver = Null
    /\ connectionStatus = "disconnected"
    /\ steamId64 = Null
    /\ pendingCraftResolve = 0
    /\ crafts = [c \in CraftIds |-> FreeCraft]
    /\ bulk = [b \in BulkIds |-> FreeBulk]
    /\ reply = Reply("start", Null, "-")

\* and the first loadItemSchema() it starts (line 615), still fetching
StartState(f) ==
    /\ SessionStart(f)
    /\ schemaByType = EmptySchema
    /\ itemSchema = <<>>
    /\ schemaLoaded = FALSE
    /\ loading = 1

InitialFiles == {AbsentFile} \cup {LegacyFile(a, "T1") : a \in Names}

Init == \E f \in InitialFiles : StartState(f)

SessionNext ==
    \/ \E u \in Names : Login(u)
    \/ TokenLogin
    \/ \E a \in Names : Switch(a)
    \/ \E a \in Names : RemoveAccount(a)
    \/ Guard
    \/ Logout
    \/ \E op \in {"login", "switch", "remove-account"} : BadRequest(op)
    \/ OnLoggedOn
    \/ \E t \in Tokens : OnRefreshToken(t)
    \/ OnSteamGuard
    \/ OnError
    \/ OnLoggedOff
    \/ OnConnectedToGC
    \/ OnDisconnectedFromGC
    \/ \E e \in {StaleEvent("disconnectedFromGC", Null), StaleEvent("loggedOff", Null)} :
          OnStaleEvent(e)
    \/ \E a \in Names, t \in Tokens : OnStaleRefreshToken(a, t)

CraftNext ==
    \/ \E req \in Requests : ExecuteCraft(req)
    \/ \E c \in CraftIds : CraftTimeout(c)
    \/ \E k \in CraftIds : CraftingComplete(k)
    \/ \E k \in CraftIds : CraftUnanswered(k)

\* a few inventory items, to look up while the catalog loads and reloads
ProbeItems ==
    {item \in Items :
        /\ item.paint_index = Some(44)
        /\ item.attribute.present /\ Len(item.attribute.list) = 2
        /\ item.stickers.present /\ Len(item.stickers.list) = 1
        /\ item.stickers.list[1].sticker_id.has}

CatalogNext ==
    \/ RefreshWebInventory
    \/ \E results \in FetchResults : LoadItemSchemaDone(results)
    \/ \E item \in ProbeItems : Lookup(item)

BulkNext ==
    \/ \E op \in {"add", "remove"}, body \in BulkBodies : BulkRequest(op, body)
    \/ \E b \in BulkIds : BulkTimer(b)

Next == SessionNext \/ CraftNext \/ CatalogNext \/ BulkNext

Spec == Init /\ [][Next]_vars

\* the session on its own: the auth routes and the connection's events
SessionSpec == Init /\ [][SessionNext]_vars

\* the craft coordinator with the session steps that open and close the GC
\* session it needs (the craft route reads the session only through csgo and
\* connectionStatus, and no session step reads a craft variable)
CraftSessionNext ==
    \/ Login("alice")
    \/ OnLoggedOn
    \/ OnConnectedToGC
    \/ OnDisconnectedFromGC
    \/ Logout

CraftSpec == Init /\ [][CraftNext \/ CraftSessionNext]_vars

\* For liveness: the same steps from a fresh install (no token file), with the
\* requests of one recipe; the event loop runs every timer that stays armed.
LiveRequests ==
    {req \in Requests : req.rarity \in {"rarity_rare_weapon", "rarity_ancient_weapon"}}

CraftLiveNext ==
    \/ \E req \in LiveRequests : ExecuteCraft(req)
    \/ \E c \in CraftIds : CraftTimeout(c)
    \/ \E k \in CraftIds : CraftingComplete(k)
    \/ \E k \in CraftIds : CraftUnanswered(k)

CraftLiveSpec ==
    /\ StartState(AbsentFile)
    /\ [][CraftLiveNext \/ CraftSessionNext]_vars
    /\ \A c \in CraftIds : WF_vars(CraftTimeout(c))

(***************************************************************************)
(* Craft coordinator properties (checked under CraftSpec / CraftLiveSpec)  *)
(***************************************************************************)
Outstanding == {c \in CraftIds : crafts[c].promise = "pending"}

\* C1: in every reachable state at most one accepted craft is outstanding
\* (accepted and not yet answered to its caller).
C1_AtMostOneOutstanding == Cardinality(Outstanding) <= 1

\* C2 as stated: an executeCraft started while the slot is held always answers
\* CraftInProgress, whatever the session status, and leaves the slot, the timers
\* and the commands sent as they were.
C2_AlwaysCraftInProgress ==
    [][(reply'.op = "executeCraft" /\ pendingCraftResolve # 0)
         => (reply'.code = "CraftInProgress" /\ UNCHANGED craftVars)]_vars

\* C2 amended: an executeCraft started while the slot is held fails, with
\* CraftInProgress when the session is connected and with NotConnected when it
\* is not; either way the slot, the timers and the commands sent are unchanged.
C2_RejectedWhilePending ==
    [][(reply'.op = "executeCraft" /\ pendingCraftResolve # 0)
         => /\ reply'.code = IF connectionStatus = "connected"
                             THEN "CraftInProgress" ELSE "NotConnected"
            /\ UNCHANGED craftVars]_vars

C2_Witness ==
    /\ reply.op = "executeCraft"
    /\ reply.code = "CraftInProgress"
    /\ pendingCraftResolve # 0
    /\ crafts[pendingCraftResolve].timer

ValidRequests == {req \in Requests : req.n = CraftSize /\ req.rarity \in DOMAIN recipeMap}

\* C4: a pending craft is always answered in the end; it leaves the pending
\* state only by a completion event (Success) or by its timer (CraftTimeout),
\* so one no completion event arrives for ends in CraftTimeout; and the step
\* that answers CraftTimeout leaves the slot empty, so that a valid executeCraft
\* on a connected session is accepted.
C4_TimeoutFreesSlot ==
    /\ [][\A c \in CraftIds :
            (crafts[c].promise = "pending" /\ crafts'[c].promise # "pending")
              => /\ reply'.op = "craftOutcome"
                 /\ reply'.craft = c
                 /\ reply'.code \in {"Success", "CraftTimeout"}
                 /\ reply'.code = "CraftTimeout"
                      => /\ pendingCraftResolve' = 0
                         /\ \A req \in ValidRequests :
                              connectionStatus' = "connected"
                                => executeCraftCheck(req)' = "accept"]_vars
    /\ \A c \in CraftIds :
         (crafts[c].promise = "pending") ~> (crafts[c].promise # "pending")

C4_Witness ==
    /\ reply.op = "craftOutcome"
    /\ reply.code = "CraftTimeout"
    /\ connectionStatus = "connected"
    /\ pendingCraftResolve = 0

\* C5: a caller gets an outcome only while its promise is pending, and the
\* step that delivers it (completion or timeout) settles the promise, disarms
\* the craft's timer and takes the craft out of the slot: whichever of the two
\* comes second finds nothing to deliver to that caller.
C5_ExactlyOneOutcome ==
    [][\A c \in CraftIds :
         (reply'.op = "craftOutcome" /\ reply'.craft = c)
           => /\ crafts[c].promise = "pending"
              /\ crafts'[c].promise # "pending"
              /\ ~crafts'[c].timer
              /\ pendingCraftResolve' # c]_vars

\* a completion event that came second, after the timeout, and delivered nothing
C5_Witness ==
    /\ reply.op = "craftOutcome"
    /\ reply.code = "none"
    /\ reply.cmd # 0
    /\ pendingCraftResolve = 0

\* C6: once a craft has released the slot, its still-armed timer firing later
\* changes nothing of the slot, in particular not the slot of another craft.
C6_ReleaseIdempotent ==
    [][\A c \in CraftIds :
         (crafts[c].timer /\ crafts[c].promise # "pending" /\ ~crafts'[c].timer)
           => pendingCraftResolve' = pendingCraftResolve]_vars

\* C7: the newItemIds a caller receives are those of the completion event of
\* its own craft command.
C7_CompletionCorrelated ==
    (reply.op = "craftOutcome" /\ reply.code = "Success") => reply.cmd = reply.craft

(***************************************************************************)
(* Session properties (checked under SessionSpec)                          *)
(***************************************************************************)
\* C8: in every reachable state, status connected implies that the account
\* store's active account is non-null and that steamId64 is set.
C8_ConnectedHasAccount ==
    connectionStatus = "connected"
      => (loadTokenFile(tokenFile).active # Null /\ steamId64 # Null)

\* C9: the guard route succeeds (invokes the stored callback, status becomes
\* connecting) only when the status is steamguard; in every other status it
\* answers NoChallengePending, invokes no callback and leaves the status alone.
C9_GuardOnlyWhenAwaiting ==
    [][reply'.op = "guard"
         => IF connectionStatus = "steamguard"
            THEN /\ reply'.code = "ok"
                 /\ connectionStatus' = "connecting"
            ELSE /\ reply'.code = "NoChallengePending"
                 /\ UNCHANGED <<connectionStatus, steamGuardResolver, client>>]_vars

C11_NoCredentialNoSideEffect ==
    [][(reply'.op = "switch" /\ reply'.code = "NoCredentialForAccount")
         => UNCHANGED <<client, connectionStatus, steamId64>>]_vars

\* C12: removeAccount(name) changes the session exactly when name is the
\* active account of a connected session (the connection is logged off and the
\* status becomes disconnected); for any other name, one not in the store
\* included, the status, steamId64 and the connection are unchanged.
C12_RemoveDisconnectsOnlyActive ==
    [][(reply'.op = "remove-account" /\ reply'.name \in Names)
         => IF /\ connectionStatus = "connected"
               /\ loadTokenFile(tokenFile).active = reply'.name
            THEN /\ client' = logOff(client)
                 /\ connectionStatus' = "disconnected"
            ELSE UNCHANGED <<client, connectionStatus, steamId64>>]_vars

\* C13: logout clears the stored credential of the account being logged out
\* only: every other account of the store is still there afterwards, with the
\* credential it had.
C13_LogoutKeepsOtherAccounts ==
    [][reply'.op = "logout"
         => LET before == loadTokenFile(tokenFile)
                after  == loadTokenFile(tokenFile')
            IN  \A a \in Names :
                  (a # before.active /\ HasKey(before.accounts, a))
                    => /\ HasKey(after.accounts, a)
                       /\ Get(after.accounts, a) = Get(before.accounts, a)]_vars

\* C20: a credential emitted by a connection is stored under the name of the
\* account that connection was logging in, and that account becomes active;
\* no entry of another account is written, also when a login or a switch to
\* another account happened since the connection was created.
C20_CredentialStoredUnderIssuer ==
    [][reply'.op = "refreshToken"
         => LET before == loadTokenFile(tokenFile)
                after  == loadTokenFile(tokenFile')
            IN  /\ after.active = reply'.name
                /\ Get(after.accounts, reply'.name) \in Tokens
                /\ \A a \in Names \ {reply'.name} :
                      /\ HasKey(after.accounts, a) = HasKey(before.accounts, a)
                      /\ Get(after.accounts, a) = Get(before.accounts, a)]_vars

(***************************************************************************)
(* The catalog on its own, from server start: reloads with any category    *)
(* failing, in flight together, and lookups between them                   *)
(***************************************************************************)
CatalogSpec == StartState(AbsentFile) /\ [][CatalogNext]_vars

\* C15: a reload replaces the index of each category whose fetch succeeded by
\* the index of the fetched document, whole, and leaves the index of each
\* category whose fetch failed exactly as it was; what one category's fetch
\* did has no effect on another category's index.
C15_IndexReplacedOrKept ==
    [][reply'.op = "schemaLoaded"
         => \A t \in TypeSet :
              IF reply'.results[t].fulfilled
              THEN schemaByType'[t] =
                     Index(buildIndex(t, itemsOf(reply'.results[t].data)))
              ELSE schemaByType'[t] = schemaByType[t]]_vars

\* a reload in which the skins fetch failed: the skin index is still the one
\* of edition A while the sticker index is the one of edition B
C15_Witness ==
    /\ reply.op = "schemaLoaded"
    /\ ~reply.results["skin"].fulfilled
    /\ reply.results["sticker"].fulfilled
    /\ Has(schemaByType, "skin", <<CoinDefIndex, 44>>)
    /\ Has(schemaByType, "sticker", CoinDefIndex)

\* the reloads C16 is about: every category had been loaded, and exactly one
\* fetch of this reload failed
OneFailedAfterLoad ==
    /\ reply'.op = "schemaLoaded"
    /\ \A t \in TypeSet : schemaByType[t].defined
    /\ Cardinality({t \in TypeSet : ~reply'.results[t].fulfilled}) = 1

\* C16: when a reload after an earlier successful load fails for exactly one
\* category, every other category's index holds its fetched document and the
\* failed category's index is empty.
C16_FailedCategoryEmpty ==
    [][OneFailedAfterLoad
         => \A t \in TypeSet :
              IF reply'.results[t].fulfilled
              THEN schemaByType'[t] =
                     Index(buildIndex(t, itemsOf(reply'.results[t].data)))
              ELSE DOMAIN schemaByType'[t].map = {}]_vars

\* C16 as the code has it: the failed category keeps the entries of the
\* earlier load, every one of them, and the others hold their new documents.
C16_FailedCategoryKept ==
    [][OneFailedAfterLoad
         => \A t \in TypeSet :
              IF reply'.results[t].fulfilled
              THEN schemaByType'[t] =
                     Index(buildIndex(t, itemsOf(reply'.results[t].data)))
              ELSE /\ schemaByType'[t].defined
                   /\ DOMAIN schemaByType'[t].map = DOMAIN schemaByType[t].map
                   /\ \A k \in DOMAIN schemaByType[t].map :
                         schemaByType'[t].map[k] = schemaByType[t].map[k]]_vars

C16_Witness ==
    /\ reply.op = "schemaLoaded"
    /\ \A t \in TypeSet : schemaByType[t].defined
    /\ \E t \in TypeSet :
          /\ {u \in TypeSet : ~reply.results[u].fulfilled} = {t}
          /\ DOMAIN schemaByType[t].map # {}

\* no load has stored anything yet
BeforeFirstLoad == ~schemaLoaded /\ schemaByType = EmptySchema

\* C17: until the first catalog load has completed, lookupSchema answers null
\* for every inventory item, whatever its def_index, paint_index, rarity,
\* attributes and stickers.
C17_NullBeforeFirstLoad ==
    BeforeFirstLoad
      => \A item \in Items : lookupSchema(schemaByType, item) = NullSchema

\* C17 as the code has it: null for every item but those of the hardcoded
\* overrides, which need no catalog.
C17_NullOrOverrideBeforeFirstLoad ==
    BeforeFirstLoad
      => \A item \in Items :
           lookupSchema(schemaByType, item) =
             IF item.def_index = CoinDefIndex /\ item.rarity = 1
             THEN (IF hasAttribute(item, VeteranAttribute) THEN Coin10 ELSE Coin5)
             ELSE IF /\ item.def_index = BadgeDefIndex /\ item.rarity = 1
                     /\ hasAttribute(item, VeteranAttribute)
                  THEN LoyaltyBadge
                  ELSE NullSchema

C17_Witness ==
    /\ BeforeFirstLoad
    /\ reply.op = "lookup"
    /\ reply.item.def_index = 7
    /\ reply.item.paint_index = Some(44)
    /\ reply.result = NullSchema

(***************************************************************************)
(* lookupSchema on its own: every inventory item of Items looked up in     *)
(* every catalog a first load, or a full load and a reload, can leave      *)
(***************************************************************************)
FreshCatalog == [schema |-> EmptySchema, items |-> <<>>]

catalogAfter(c, results) ==
    [schema |-> storeResults(c.schema, results),
     items  |-> mergeItemSchema(c.items, results)]

LookupCatalogs ==
    {FreshCatalog}
    \cup {catalogAfter(FreshCatalog, r) : r \in FetchResults}
    \cup {catalogAfter(catalogAfter(FreshCatalog, Settled(ed, {})), r) :
            ed \in Editions, r \in FetchResults}

LookupInit ==
    \E c \in LookupCatalogs :
        /\ SessionStart(AbsentFile)
        /\ schemaByType = c.schema
        /\ itemSchema = c.items
        /\ schemaLoaded = (c # FreshCatalog)
        /\ loading = IF c = FreshCatalog THEN 1 ELSE 0

LookupNext == \E item \in Items : Lookup(item)

LookupSpec == LookupInit /\ [][LookupNext]_vars

\* C18: an item with a non-zero paint_index whose (def_index, paint_index)
\* is a key of the skin index resolves to exactly that skin entry, whatever
\* its rarity, attributes and stickers and whatever the other indices hold.
C18_SkinKeyWins ==
    (/\ reply.op = "lookup"
     /\ reply.item.paint_index.has
     /\ reply.item.paint_index.val # 0
     /\ schemaByType["skin"].defined
     /\ <<reply.item.def_index, reply.item.paint_index.val>>
           \in DOMAIN schemaByType["skin"].map)
      => reply.result =
           schemaByType["skin"].map[<<reply.item.def_index,
                                      reply.item.paint_index.val>>]

\* a painted coin with rarity 1 and attribute 277 resolved as the skin
C18_Witness ==
    /\ reply.op = "lookup"
    /\ reply.item.def_index = CoinDefIndex
    /\ reply.item.paint_index = Some(44)
    /\ reply.item.rarity = 1
    /\ hasAttribute(reply.item, VeteranAttribute)
    /\ Has(schemaByType, "collectible", CoinDefIndex)
    /\ Has(schemaByType, "skin", <<CoinDefIndex, 44>>)
    /\ reply.result.name = <<"Coin", "Painted">>

\* a lookup of one of the two overridden def_index values that rule 1 did
\* not resolve as a skin
OverriddenLookup ==
    /\ reply.op = "lookup"
    /\ reply.item.def_index \in {CoinDefIndex, BadgeDefIndex}
    /\ ~isSkin(schemaByType, reply.item)

\* C19: for an item not resolved as a skin the coin / badge override gives
\* the result only when rarity is 1 and the attribute list contains id 277;
\* without the attribute, or with another rarity, the result is the one of
\* the generic path (rules 3 to 5); for def_index 4950 and for 1348.
C19_OverrideNeedsAttribute ==
    OverriddenLookup
      => reply.result =
           IF reply.item.rarity = 1 /\ hasAttribute(reply.item, VeteranAttribute)
           THEN (IF reply.item.def_index = CoinDefIndex THEN Coin10 ELSE LoyaltyBadge)
           ELSE lookupGeneric(schemaByType, reply.item)

\* C19 as the code has it: a 4950 item of rarity 1 is always a coin, the
\* 10 Year one with attribute 277 and the 5 Year one without; a 1348 item
\* is the badge only with rarity 1 and attribute 277; every other item goes
\* down the generic path.
C19_CoinAlwaysBadgeWithAttribute ==
    OverriddenLookup
      => reply.result =
           IF reply.item.def_index = CoinDefIndex /\ reply.item.rarity = 1
           THEN (IF hasAttribute(reply.item, VeteranAttribute) THEN Coin10 ELSE Coin5)
           ELSE IF /\ reply.item.rarity = 1
                   /\ hasAttribute(reply.item, VeteranAttribute)
                THEN LoyaltyBadge
                ELSE lookupGeneric(schemaByType, reply.item)

\* a 1348 item of rarity 1 without the attribute, resolved by rule 4
C19_Witness ==
    /\ OverriddenLookup
    /\ reply.item.def_index = BadgeDefIndex
    /\ reply.item.rarity = 1
    /\ ~hasAttribute(reply.item, VeteranAttribute)
    /\ reply.result = [name |-> <<"Key">>, iconUrl |-> Null]

(***************************************************************************)
(* The account store's loads on their own: the server starts on any token  *)
(* file an earlier run, of this or of the single-account version, left,    *)
(* and the read-only routes load it again                                  *)
(***************************************************************************)
StoredTokens == Tokens \cup {Null}

StoredAccounts ==
    {<<>>}
    \cup {<<[name |-> a, token |-> t]>> : a \in Names, t \in StoredTokens}
    \cup {acc \in {<<[name |-> a, token |-> t], [name |-> b, token |-> u]>> :
                      a \in Names, b \in Names,
                      t \in StoredTokens, u \in StoredTokens} :
            acc[1].name # acc[2].name}

StoreFiles ==
    {AbsentFile}
    \cup {LegacyFile(a, t) : a \in Names, t \in StoredTokens}
    \cup {saveTokenFile(data) :
            data \in {d \in [active : Names \cup {Null}, accounts : StoredAccounts] :
                        d.active = Null \/ HasKey(d.accounts, d.active)}}

\* what a step that loaded the store saw: the shape it found, the value
\* loadTokenFile() returned
StoreReply(op, f) == [op |-> op, from |-> f.kind, data |-> loadTokenFile(f)]

\* the module's top level has run (lines 13-24, 88), app.listen's callback not yet
Boot(f) ==
    /\ tokenFile = f
    /\ client = NoClient
    /\ currentLoginAccount = Null
    /\ staleEvents = {}
    /\ steamGuardResolver = Null
    /\ connectionStatus = "disconnected"
    /\ steamId64 = Null
    /\ pendingCraftResolve = 0
    /\ crafts = [c \in CraftIds |-> FreeCraft]
    /\ bulk = [b \in BulkIds |-> FreeBulk]
    /\ schemaByType = EmptySchema
    /\ itemSchema = <<>>
    /\ schemaLoaded = FALSE
    /\ loading = 0
    /\ reply = [op |-> "boot", from |-> f.kind, data |-> [active |-> Null, accounts |-> <<>>]]

\* app.listen callback (lines 611-625): loadItemSchema() starts, loadToken()
\* loads the store, the saved account is logged on
Start ==
    LET saved == loadToken(tokenFile) IN
    /\ reply.op = "boot"
    /\ loading' = loading + 1
    /\ tokenFile' = fileAfterLoad(tokenFile)
    /\ client' = IF saved.token = Null THEN NoClient
                 ELSE [phase |-> "logon", acct |-> saved.accountName]
    /\ currentLoginAccount' = IF saved.token = Null THEN Null ELSE saved.accountName
    /\ reply' = StoreReply("start", tokenFile)
    /\ UNCHANGED <<staleEvents, steamGuardResolver, connectionStatus, steamId64,
                   craftVars, schemaByType, itemSchema, schemaLoaded, bulk>>

\* GET /api/auth/accounts (lines 269-275)
Accounts ==
    /\ reply.op # "boot"
    /\ tokenFile' = fileAfterLoad(tokenFile)
    /\ reply' = StoreReply("accounts", tokenFile)
    /\ UNCHANGED <<client, staleEvents, steamGuardResolver, connectionStatus,
                   steamId64, currentLoginAccount, craftVars, catalogVars, bulk>>

\* GET /api/auth/status (lines 258-267): loadToken(), then loadTokenFile()
Status ==
    /\ reply.op # "boot"
    /\ tokenFile' = fileAfterLoad(fileAfterLoad(tokenFile))
    /\ reply' = StoreReply("status", fileAfterLoad(tokenFile))
    /\ UNCHANGED <<client, staleEvents, steamGuardResolver, connectionStatus,
                   steamId64, currentLoginAccount, craftVars, catalogVars, bulk>>

StoreInit == \E f \in StoreFiles : Boot(f)

StoreNext == Start \/ Accounts \/ Status

StoreSpec == StoreInit /\ [][StoreNext]_vars

\* C14: loading a legacy store {accountName: a, token: t} returns
\* {active: a, accounts: {a: t}} and leaves that map on disk, so the next
\* load returns the same value and migrates nothing; a store already in map
\* shape is returned as it is and stays as it is.
C14_LegacyMigratedOnce ==
    [][reply'.op \in {"start", "accounts", "status"}
         => /\ tokenFile.kind = "legacy"
                => /\ reply'.data =
                        [active |-> tokenFile.accountName,
                         accounts |-> <<[name |-> tokenFile.accountName,
                                         token |-> tokenFile.token]>>]
                   /\ tokenFile'.kind = "map"
                   /\ tokenFile'.active = reply'.data.active
                   /\ tokenFile'.accounts = reply'.data.accounts
            /\ tokenFile.kind = "map"
                => /\ reply'.data = [active |-> tokenFile.active,
                                     accounts |-> tokenFile.accounts]
                   /\ tokenFile' = tokenFile
            /\ reply.op \in {"start", "accounts", "status"}
                => /\ reply'.from # "legacy"
                   /\ reply'.data = reply.data
                   /\ tokenFile' = tokenFile]_vars

\* the server has started on alice's legacy store and migrated it
C14_Witness ==
    /\ reply.op = "start"
    /\ reply.from = "legacy"
    /\ reply.data = [active |-> "alice",
                     accounts |-> <<[name |-> "alice", token |-> "T2"]>>]
    /\ tokenFile = saveTokenFile(reply.data)
    /\ client = [phase |-> "logon", acct |-> "alice"]

C22_RemovedStaysRemoved ==
    [][(reply.op = "remove-account" /\ reply.name \in Names
        /\ reply'.op = "refreshToken")
         => LET after == loadTokenFile(tokenFile') IN
            /\ ~HasKey(after.accounts, reply.name)
            /\ after.active # reply.name]_vars

\* C23: once logout, or the disconnect removeAccount forces, has set the
\* status to disconnected, an event of the torn-down connection leaves it
\* disconnected; here for the event that arrives right after.
C23_StaysDisconnected ==
    [][(/\ reply.op \in {"logout", "remove-account"}
        /\ reply.code = "ok"
        /\ connectionStatus = "disconnected"
        /\ client.phase \notin LivePhases
        /\ reply'.code = "stale")
         => connectionStatus' = "disconnected"]_vars

(***************************************************************************)
(* The bulk routes with the session steps that open and close the GC       *)
(* session they need                                                        *)
(***************************************************************************)
BulkSpec == StartState(AbsentFile) /\ [][BulkNext \/ CraftSessionNext]_vars

\* C24: the commands of an accepted bulk add or remove are sent one per
\* item in the order of the list, each of them while the status is still
\* connected and on the connection that accepted the request, never on a
\* torn-down or another account's connection.
C24_BulkCommandsOnAcceptingConnection ==
    [][reply'.op = "casketCommand"
         => LET job == bulk[reply'.job] IN
            /\ reply'.cmd = job.op
            /\ reply'.item = job.itemIds[job.next]
            /\ bulk'[reply'.job].next =
                  (IF job.next < Len(job.itemIds) THEN job.next + 1 ELSE 0)
            /\ connectionStatus = "connected"
            /\ reply'.target.phase = "gc"
            /\ reply'.target.acct = job.acct]_vars

====
